---- MODULE Spec2Model ----
(***************************************************************************)
(* A model of svg2png.js (sebastian2010/svg2png): configuration            *)
(* validation, task planning, the fetch cache, the per-task conversion     *)
(* pipeline and the two schedulers (runSequential / runParallel) together  *)
(* with the statistics they maintain.                                      *)
(*                                                                         *)
(* Strings are sequences of tokens (<<"a", ".svg">> is "a.svg"), so that   *)
(* concatenation, path joining and the ".svg" replacement are computed.    *)
(* One action is one run-to-completion turn of the JavaScript event loop:  *)
(* the code between two awaits of one async function.                      *)
(***************************************************************************)
EXTENDS Integers, Sequences, FiniteSets, TLC

(***************************************************************************)
(* Bounds of the model.                                                    *)
(***************************************************************************)
MaxIcons == 5

MaxSources == 2

MaxTasks == 10

MaxBytes == 2

MaxPlanIcons == 2

MaxLiveTasks == 6

MaxPlanSources == 2

MaxEqTasks == 4

(***************************************************************************)
(* Program constants.                                                      *)
(***************************************************************************)
BATCH_SIZE == 4

DefaultWideWidth == 320

DefaultWideHeight == 180

MaxSize == 2048

(***************************************************************************)
(* Token strings.                                                          *)
(***************************************************************************)
Empty == <<>>

SvgExt == ".svg"

PngExt == ".png"

UrlScheme == "https://"

DefaultWideSuffix == <<"_wide">>

\* Utils.isUrl: new URL(source) succeeds exactly for an absolute URL, which
\* in the token strings of the model is one that starts with a scheme.
isUrl(source) == Len(source) > 0 /\ source[1] = UrlScheme

\* String.prototype.replace(pattern, '') with a string pattern: removes the
\* FIRST occurrence of the pattern, wherever it is.
RECURSIVE ReplaceFirst(_, _)
ReplaceFirst(s, tok) ==
    IF s = <<>> THEN <<>>
    ELSE IF Head(s) = tok THEN Tail(s)
    ELSE <<Head(s)>> \o ReplaceFirst(Tail(s), tok)

\* path.join(a, b): joins with a separator and normalises, which drops a
\* leading "./" segment.
pathJoin(a, b) ==
    LET joined == a \o <<"/">> \o b
    IN  IF Len(joined) > 0 /\ joined[1] = "./" THEN Tail(joined) ELSE joined

(***************************************************************************)
(* ConfigManager: validation.  An error is the field it names and the      *)
(* message; index is the position in sources (0 where there is none).      *)
(***************************************************************************)
Err(field, index, msg) == [field |-> field, index |-> index, msg |-> msg]

Min(a, b) == IF a < b THEN a ELSE b

validateIcons(icons) ==
    IF Len(icons) = 0
    THEN <<Err("icons", 0, "must be a non-empty array")>>
    ELSE <<>>

validateSingleSource(source, index) ==
    (IF source.source = Empty
     THEN <<Err("sources.source", index, "must be a non-empty string")>>
     ELSE <<>>)
    \o
    (IF source.suffix = Empty
     THEN <<Err("sources.suffix", index, "must be a non-empty string")>>
     ELSE <<>>)

RECURSIVE validateEachSource(_, _)
validateEachSource(sources, index) ==
    IF index >= Len(sources) THEN <<>>
    ELSE validateSingleSource(sources[index + 1], index)
         \o validateEachSource(sources, index + 1)

validateSources(sources) ==
    IF Len(sources) = 0
    THEN <<Err("sources", 0, "must be a non-empty array")>>
    ELSE validateEachSource(sources, 0)

validateBasicSettings(settings) ==
    (IF settings.size < 1 \/ settings.size > MaxSize
     THEN <<Err("settings.size", 0, "must be a number between 1 and 2048")>>
     ELSE <<>>)
    \o
    (IF settings.outputDirectory = Empty
     THEN <<Err("settings.outputDirectory", 0, "must be a non-empty string")>>
     ELSE <<>>)

\* The last test of validateWideSettings with Math.max in the place of Math.min.
validateWideSettingsMax(wide) ==
    IF ~wide.present THEN <<>>
    ELSE
      (IF wide.width < 1
       THEN <<Err("settings.wide.width", 0, "must be a positive number")>>
       ELSE <<>>)
      \o
      (IF wide.height < 1
       THEN <<Err("settings.wide.height", 0, "must be a positive number")>>
       ELSE <<>>)
      \o
      (IF wide.iconSize < 1
       THEN <<Err("settings.wide.iconSize", 0, "must be a positive number")>>
       ELSE <<>>)
      \o
      (IF wide.iconSize > wide.width /\ wide.iconSize > wide.height
       THEN <<Err("settings.wide.iconSize", 0, "must be <= min(width, height)")>>
       ELSE <<>>)

validateWideSettings(wide) ==
    IF ~wide.present THEN <<>>
    ELSE
      (IF wide.width < 1
       THEN <<Err("settings.wide.width", 0, "must be a positive number")>>
       ELSE <<>>)
      \o
      (IF wide.height < 1
       THEN <<Err("settings.wide.height", 0, "must be a positive number")>>
       ELSE <<>>)
      \o
      (IF wide.iconSize < 1
       THEN <<Err("settings.wide.iconSize", 0, "must be a positive number")>>
       ELSE <<>>)
      \o
      (IF wide.iconSize > Min(wide.width, wide.height)
       THEN <<Err("settings.wide.iconSize", 0, "must be <= min(width, height)")>>
       ELSE <<>>)

validateSettings(settings) ==
    validateBasicSettings(settings) \o validateWideSettings(settings.wide)

validateConfig(cfg) ==
    validateIcons(cfg.icons)
    \o validateSources(cfg.sources)
    \o validateSettings(cfg.settings)

(***************************************************************************)
(* SVGConverter.run: the dimensions it derives from settings, and          *)
(* generateTasks.                                                          *)
(***************************************************************************)
\* wide?.x without its default.
OrUndefined(wide, value, default) == value

\* wide?.x || d : the default is taken when the block is absent or the
\* value is falsy (0).
OrDefault(wide, value, default) ==
    IF wide.present /\ value # 0 THEN value ELSE default

OrDefaultStr(wide, value, default) ==
    IF wide.present /\ value # Empty THEN value ELSE default

TaskSettings(settings) ==
    [size            |-> settings.size,
     outputDirectory |-> settings.outputDirectory,
     wideWidth       |-> OrDefault(settings.wide, settings.wide.width, DefaultWideWidth),
     wideHeight      |-> OrDefault(settings.wide, settings.wide.height, DefaultWideHeight),
     wideIconSize    |-> OrDefault(settings.wide, settings.wide.iconSize, settings.size),
     wideSuffix      |-> OrDefaultStr(settings.wide, settings.wide.wideSuffix, DefaultWideSuffix)]

fullSourceOf(source, iconName) ==
    IF isUrl(source) THEN source \o iconName ELSE pathJoin(source, iconName)

\* The two tasks pushed for one icon and one source: square, then wide.
TaskPair(iconName, sourceConfig, settings) ==
    LET baseName   == ReplaceFirst(iconName, SvgExt)
        fullSource == fullSourceOf(sourceConfig.source, iconName)
        squareOutput == pathJoin(settings.outputDirectory,
                                 baseName \o sourceConfig.suffix \o <<PngExt>>)
        wideOutput   == pathJoin(settings.outputDirectory,
                                 baseName \o sourceConfig.suffix
                                          \o settings.wideSuffix \o <<PngExt>>)
    IN  << [type |-> "square", source |-> fullSource, output |-> squareOutput,
            iconName |-> iconName, suffix |-> sourceConfig.suffix,
            width |-> settings.size, height |-> settings.size,
            iconSize |-> settings.size],
           [type |-> "wide", source |-> fullSource, output |-> wideOutput,
            iconName |-> iconName, suffix |-> sourceConfig.suffix,
            width |-> settings.wideWidth, height |-> settings.wideHeight,
            iconSize |-> settings.wideIconSize] >>

RECURSIVE TasksOfIcon(_, _, _)
TasksOfIcon(iconName, sources, settings) ==
    IF sources = <<>> THEN <<>>
    ELSE TaskPair(iconName, Head(sources), settings)
         \o TasksOfIcon(iconName, Tail(sources), settings)

\* generateTasks with its two loops exchanged: sources outside, icons inside.
RECURSIVE TasksOfSource(_, _, _)
TasksOfSource(icons, sourceConfig, settings) ==
    IF icons = <<>> THEN <<>>
    ELSE TaskPair(Head(icons), sourceConfig, settings)
         \o TasksOfSource(Tail(icons), sourceConfig, settings)

RECURSIVE generateTasksBySource(_, _, _)
generateTasksBySource(icons, sources, settings) ==
    IF sources = <<>> THEN <<>>
    ELSE TasksOfSource(icons, Head(sources), settings)
         \o generateTasksBySource(icons, Tail(sources), settings)

RECURSIVE generateTasks(_, _, _)
generateTasks(icons, sources, settings) ==
    IF icons = <<>> THEN <<>>
    ELSE TasksOfIcon(Head(icons), sources, settings)
         \o generateTasks(Tail(icons), sources, settings)

(***************************************************************************)
(* The inputs of a run: configurations as yaml.load may return them, and   *)
(* what the outside world can answer to a retrieval.                       *)
(***************************************************************************)
IconNames == { <<"a", SvgExt>> }

SourceConfigs ==
    { [source |-> <<UrlScheme, "h/">>, suffix |-> <<"_o">>],
      [source |-> <<"./", "x">>,       suffix |-> <<"_s">>],
      [source |-> <<"./", "x">>,       suffix |-> Empty] }

NoWide == [present |-> FALSE, width |-> 0, height |-> 0, iconSize |-> 0,
           wideSuffix |-> Empty]

\* A wide block that validation rejects (iconSize > min(width, height)).
WideBlocks ==
    { NoWide,
      [present |-> TRUE, width |-> 180, height |-> 320, iconSize |-> 200,
       wideSuffix |-> <<"_w">>] }

SettingsSet ==
    [size : {0, 10}, outputDirectory : {Empty, <<"out">>}, wide : WideBlocks]

SeqsUpTo(S, n) == UNION { [1..k -> S] : k \in 0..n }

Configs ==
    { cfg \in [icons    : SeqsUpTo(IconNames, MaxIcons),
               sources  : SeqsUpTo(SourceConfigs, MaxSources),
               settings : SettingsSet] :
        2 * Len(cfg.icons) * Len(cfg.sources) <= MaxTasks }

\* The configurations of the planning specification: more icon names and
\* settings, for what main() does up to the planned task list.
PlanIconNames == { <<"a", SvgExt>>, <<"b">>, <<"c", SvgExt, "d", SvgExt>> }

PlanWideBlocks ==
    WideBlocks \cup
    [present : {TRUE}, width : {180, 320}, height : {180, 320},
     iconSize : {0, 160, 200}, wideSuffix : {<<"_w">>}] \cup
    { [present |-> TRUE, width |-> 320, height |-> 180, iconSize |-> 160,
       wideSuffix |-> Empty] }

PlanSettingsSet ==
    [size : {0, 10, 200}, outputDirectory : {Empty, <<"out">>},
     wide : PlanWideBlocks]

\* One more source, whose suffix "_s_wide" begins with another's.
PlanSourceConfigs ==
    SourceConfigs \cup
    { [source |-> <<"./", "y">>, suffix |-> <<"_s", "_wide">>] }

PlanConfigs ==
    [icons    : SeqsUpTo(PlanIconNames, MaxPlanIcons),
     sources  : SeqsUpTo(PlanSourceConfigs, MaxPlanSources),
     settings : PlanSettingsSet]

\* Markup a retrieval can return: a well-formed document and a text without
\* an svg root element.
Texts == {"svg", "junk"}

\* The lengths pngBuffer.length can take: the shortest buffer and the longest.
ByteSizes == {1, MaxBytes}

\* modifyContent throws when document.querySelector('svg') finds nothing.
hasSvgElement(text) == text # "junk"

(***************************************************************************)
(* convertWide: the position of the icon on the canvas.  width - iconSize  *)
(* is an integer, so Math.round of its half is the nearest integer with a  *)
(* half going towards plus infinity, for negative differences as well.     *)
(***************************************************************************)
\* Math.floor in the place of Math.round.
floorHalf(n) == n \div 2

roundHalf(n) == (n + 1) \div 2

left(width, iconSize) == roundHalf(width - iconSize)

top(height, iconSize) == roundHalf(height - iconSize)

MaxDim == 6

Dims == (1..MaxDim) \cup {160, DefaultWideHeight, DefaultWideWidth}

(***************************************************************************)
(* SVGProcessor.modifyContent and applyColorStyling.  A parsed document is *)
(* its root svg element and the root's descendants in document order.  An  *)
(* attribute holds a string, or Null where getAttribute returns null.      *)
(***************************************************************************)
Null == "null"

SVG_SHAPE_SELECTORS ==
    {"path", "circle", "rect", "ellipse", "line", "polyline", "polygon"}

DEFAULT_STROKE_WIDTH == "1.5"

\* !value of a string or null
falsy(value) == value \in {Null, ""}

removeStyle(element) ==
    [element EXCEPT !.fill = Null, !.stroke = Null, !.strokeWidth = Null]

\* querySelectorAll('path') and the test of Array.some
isOutlineIcon(elements) ==
    \E k \in 1..Len(elements) :
        /\ elements[k].kind = "path"
        /\ \/ elements[k].stroke # Null
           \/ elements[k].fill = "none"
           \/ falsy(elements[k].fill)

outlineShape(element, color) ==
    [element EXCEPT !.stroke = color,
                    !.fill = "none",
                    !.strokeWidth = IF falsy(@) THEN DEFAULT_STROKE_WIDTH ELSE @]

solidShape(element, color) == [element EXCEPT !.fill = color]

applyColorStyling(d, color) ==
    LET cleaned == [k \in 1..Len(d.elements) |-> removeStyle(d.elements[k])]
        isShape(k) == cleaned[k].kind \in SVG_SHAPE_SELECTORS
    IN  IF isOutlineIcon(d.elements)
        THEN [root |-> [d.root EXCEPT !.stroke = color,
                                      !.fill = "none",
                                      !.strokeWidth = DEFAULT_STROKE_WIDTH],
              elements |-> [k \in 1..Len(cleaned) |->
                               IF isShape(k) THEN outlineShape(cleaned[k], color)
                                             ELSE cleaned[k]]]
        ELSE [root |-> [d.root EXCEPT !.fill = color],
              elements |-> [k \in 1..Len(cleaned) |->
                               IF isShape(k) THEN solidShape(cleaned[k], color)
                                             ELSE cleaned[k]]]

applyDimensions(d, width, height) ==
    [d EXCEPT !.root.width = IF width # 0 THEN ToString(width) ELSE @,
              !.root.height = IF height # 0 THEN ToString(height) ELSE @]

\* The color test of modifyContent left out: the styling always runs.
modifyContentAlwaysStyled(d, color, width, height) ==
    applyColorStyling(applyDimensions(d, width, height), color)

modifyContent(d, color, width, height) ==
    LET sized == applyDimensions(d, width, height)
    IN  IF ~falsy(color) THEN applyColorStyling(sized, color) ELSE sized

MaxElements == 2

ElementKinds == {"path", "circle", "g"}

Elements ==
    [kind : ElementKinds, fill : {Null, "none", "#000"}, stroke : {Null, "#000"},
     strokeWidth : {Null, "2"}]

Roots ==
    { [fill |-> Null, stroke |-> Null, strokeWidth |-> Null, width |-> Null,
       height |-> Null],
      [fill |-> "#f00", stroke |-> "#0f0", strokeWidth |-> "3", width |-> "24",
       height |-> "24"] }

Documents ==
    UNION { [root : Roots, elements : [1..n -> Elements]] : n \in 0..MaxElements }

Colors == {Null, "#075db3"}

RequestedSizes == {10, 160}

(***************************************************************************)
(* State.                                                                  *)
(***************************************************************************)
VARIABLES
    config,      \* the object yaml.load returned
    parallel,    \* options.parallel
    pc,          \* where main() is: load, mkdir, plan, loop (at the head of
                 \* the scheduler's loop), await (suspended in it), done, exit1
    errors,      \* validationErrors of loadConfig
    mkdirCalls,  \* number of fs.mkdir calls made by ensureDirectory
    tasks,       \* the list returned by generateTasks
    i,           \* the loop index of runSequential / runParallel (0-based)
    stage,       \* per task: idle, fetch, raster, write, settled
    result,      \* per task: the settled promise of executeTask
    stats,       \* SVGConverter.stats
    cache,       \* SVGProcessor.cache, a set of [key, text] entries
    written,     \* output paths fs.writeFile has completed on
    runs,        \* history: per task, how often executeTask was called on it
    recorded,    \* history: task indices in the order their results were counted
    batches,     \* history: the batches runParallel has dispatched, in order
    retrievals,  \* history: per full source, retrievals begun (fetch / file read)
    served,      \* history: per full source, the texts fetchContent returned
    produced,    \* history: tasks returned with success, without, and their bytes
    outDir,      \* the file system at settings.outputDirectory: absent, present
    composite,   \* one call of convertWide's placement: canvas, icon, left, top
    doc,         \* one call of modifyContent: the parsed document and its result
    oracle       \* the outcomes the outside world gives where a run has them fixed

runVars == <<config, parallel, pc, errors, mkdirCalls, tasks, i, stage, result,
             stats, cache, written, runs, recorded, batches, retrievals, served,
             produced, outDir, oracle>>

vars == <<config, parallel, pc, errors, mkdirCalls, tasks, i, stage, result,
          stats, cache, written, runs, recorded, batches, retrievals, served,
          produced, outDir, composite, doc, oracle>>

NoResult == [status |-> "pending", success |-> FALSE, size |-> 0]

Success(size) == [status |-> "fulfilled", success |-> TRUE, size |-> size]

\* The catch of the converter rethrowing the error: the promise of
\* executeTask is rejected.
FailureRethrown == [status |-> "rejected", success |-> FALSE, size |-> 0]

\* The catch of convertSquare / convertWide: the error becomes a result.
Failure == [status |-> "fulfilled", success |-> FALSE, size |-> 0]

N == Len(tasks)

TaskIds == 1..N

SourcesOf(ts) == { ts[t].source : t \in 1..Len(ts) }

InFlight == { t \in TaskIds : stage[t] \in {"fetch", "raster", "write"} }

Started == { t \in TaskIds : stage[t] # "idle" }

Settled == { t \in TaskIds : stage[t] = "settled" }

Recorded == { recorded[k] : k \in 1..Len(recorded) }

(***************************************************************************)
(* SVGProcessor.cache: Map.has / Map.get / Map.set.                        *)
(***************************************************************************)
cacheHas(c, key) == \E e \in c : e.key = key

cacheGet(c, key) == (CHOOSE e \in c : e.key = key).text

cacheSet(c, key, text) ==
    { e \in c : e.key # key } \cup { [key |-> key, text |-> text] }

(***************************************************************************)
(* The part of the state the tasks of a run work on, as one record, so     *)
(* that the synchronous start of several tasks can be composed.            *)
(***************************************************************************)
World ==
    [stage |-> stage, result |-> result, cache |-> cache, written |-> written,
     runs |-> runs, retrievals |-> retrievals, served |-> served,
     produced |-> produced]

SetWorld(w) ==
    /\ stage' = w.stage
    /\ result' = w.result
    /\ cache' = w.cache
    /\ written' = w.written
    /\ runs' = w.runs
    /\ retrievals' = w.retrievals
    /\ served' = w.served
    /\ produced' = w.produced

\* convertSquare / convertWide return: the promise of executeTask settles.
Settle(w, t, res) ==
    [w EXCEPT !.stage[t] = "settled",
              !.result[t] = res,
              !.produced = IF res.success
                           THEN [@ EXCEPT !.ok = @ + 1, !.bytes = @ + res.size]
                           ELSE [@ EXCEPT !.failed = @ + 1]]

\* modifyContent returning on any text: the task goes on to sharp.
AfterFetchUnchecked(w, t, text) ==
    [w EXCEPT !.served[tasks[t].source] = @ \cup {text}, !.stage[t] = "raster"]

\* fetchContent has returned text to the task: modifyContent runs at once
\* (it is synchronous) and either throws, which the catch of the converter
\* turns into a failed result, or leaves the task waiting for sharp.
AfterFetch(w, t, text) ==
    LET w1 == [w EXCEPT !.served[tasks[t].source] = @ \cup {text}]
    IN  IF hasSvgElement(text)
        THEN [w1 EXCEPT !.stage[t] = "raster"]
        ELSE Settle(w1, t, Failure)

\* executeTask(task) up to its first await: the cache lookup of fetchContent.
\* A hit returns the cached text; a miss begins the retrieval.
StartTask(w, t) ==
    LET src == tasks[t].source
        w1  == [w EXCEPT !.runs[t] = @ + 1]
    IN  IF cacheHas(w1.cache, src)
        THEN AfterFetch(w1, t, cacheGet(w1.cache, src))
        ELSE [w1 EXCEPT !.stage[t] = "fetch", !.retrievals[src] = @ + 1]

\* batch.map(task => this.executeTask(task)): the tasks start one after the
\* other, each up to its first await, before any I/O completes.
RECURSIVE StartAll(_, _)
StartAll(w, ts) ==
    IF ts = <<>> THEN w ELSE StartAll(StartTask(w, Head(ts)), Tail(ts))

(***************************************************************************)
(* SVGConverter.updateStats, and the forEach of runParallel.               *)
(***************************************************************************)
\* updateStats without the addition to totalSize.
updateStatsNoBytes(st, res) ==
    IF res.success
    THEN [st EXCEPT !.successful = @ + 1]
    ELSE [st EXCEPT !.failed = @ + 1]

updateStats(st, res) ==
    IF res.success
    THEN [st EXCEPT !.successful = @ + 1, !.totalSize = @ + res.size]
    ELSE [st EXCEPT !.failed = @ + 1]

\* The forEach counting only the results that report success.
recordSettledSuccessOnly(st, res) ==
    IF res.status = "fulfilled" /\ res.success
    THEN [st EXCEPT !.successful = @ + 1, !.totalSize = @ + res.size]
    ELSE st

\* The forEach taking every fulfilled promise for a successful task.
recordSettledAsSuccess(st, res) ==
    IF res.status = "fulfilled"
    THEN [st EXCEPT !.successful = @ + 1, !.totalSize = @ + res.size]
    ELSE [st EXCEPT !.failed = @ + 1]

recordSettled(st, res) ==
    IF res.status = "fulfilled"
    THEN updateStats(st, res)
    ELSE [st EXCEPT !.failed = @ + 1]

RECURSIVE recordAll(_, _)
recordAll(st, ts) ==
    IF ts = <<>> THEN st
    ELSE recordAll(recordSettled(st, result[Head(ts)]), Tail(ts))

\* tasks.slice(i, i + BATCH_SIZE - 1): a slice one task short.
batchOfShort(k) ==
    [j \in 1..(Min(k + BATCH_SIZE - 1, N) - k) |-> k + j]

\* tasks.slice(i, i + BATCH_SIZE), as 1-based task indices in order.
batchOf(k) ==
    [j \in 1..(Min(k + BATCH_SIZE, N) - k) |-> k + j]

Range(f) == { f[x] : x \in DOMAIN f }

\* The call without the await: the loop goes on at once.
awaitTaskMissing(t) == stage[t] # "idle"

\* await this.executeTask(task): the loop resumes when the promise settled.
awaitTask(t) == stage[t] = "settled"

\* Promise.race in place of Promise.allSettled: resumes with the first
\* task of the batch to settle.
anySettled(ts) == \E t \in Range(ts) : stage[t] = "settled"

\* Awaiting only the first promise of the batch.
firstSettled(ts) == stage[ts[1]] = "settled"

\* await Promise.allSettled(batch.map(...)): resumes when all have settled.
allSettled(ts) == \A t \in Range(ts) : stage[t] = "settled"

\* The length test off by one: a single violation passes.
loadRejectsSeveral(errs) == Len(errs) > 1

\* loadConfig: if (validationErrors.length > 0) throw.
loadRejects(errs) == Len(errs) > 0

(***************************************************************************)
(* Init: main() is about to load the configuration file.                   *)
(***************************************************************************)
InitRun(configs) ==
    /\ config \in configs
    /\ parallel \in BOOLEAN
    /\ outDir \in {"absent", "present"}
    /\ pc = "load"
    /\ errors = <<>>
    /\ mkdirCalls = 0
    /\ tasks = <<>>
    /\ i = 0
    /\ stage = <<>>
    /\ result = <<>>
    /\ stats = [total |-> 0, successful |-> 0, failed |-> 0, totalSize |-> 0]
    /\ cache = {}
    /\ written = {}
    /\ runs = <<>>
    /\ recorded = <<>>
    /\ batches = <<>>
    /\ retrievals = <<>>
    /\ served = <<>>
    /\ produced = [ok |-> 0, failed |-> 0, bytes |-> 0]

NoComposite == [state |-> "none"]

NoDoc == [state |-> "none"]

NoOracle == [fetch |-> <<>>, later |-> <<>>]

InitWith(configs) ==
    /\ InitRun(configs)
    /\ composite = NoComposite
    /\ doc = NoDoc
    /\ oracle = NoOracle

Init == InitWith(Configs)

(***************************************************************************)
(* main: ConfigManager.loadConfig.  Reading or parsing the file may fail;  *)
(* otherwise the configuration is validated.  Either failure is rethrown   *)
(* to main, whose catch ends the process with exit code 1.                 *)
(***************************************************************************)
LoadConfig ==
    /\ pc = "load"
    /\ \E readOk \in BOOLEAN :
          LET errs == IF readOk THEN validateConfig(config) ELSE <<>>
          IN  /\ errors' = errs
              /\ pc' = IF readOk /\ ~loadRejects(errs) THEN "mkdir" ELSE "exit1"
    /\ UNCHANGED <<oracle, composite, doc, outDir, config, parallel,
                   mkdirCalls, tasks, i, stage, result, stats, cache, written,
                   runs, recorded, batches, retrievals, served, produced>>

(***************************************************************************)
(* run: await Utils.ensureDirectory(outputDirectory).  fs.mkdir with       *)
(* recursive: true creates a missing directory and resolves on an existing *)
(* one; it rejects with EEXIST where the path exists and is not a          *)
(* directory, and with another code (EACCES here) where the directory      *)
(* cannot be created.  An EEXIST error is swallowed; any other error is    *)
(* rethrown and ends the process in main.                                  *)
(***************************************************************************)
\* The catch of ensureDirectory rethrowing every error.
ensureDirectoryThrowsAny(code) == code # "ok"

ensureDirectoryThrows(code) == code \notin {"ok", "EEXIST"}

mkdirOutcomes(dir) == IF dir = "present" THEN {"ok", "EEXIST"} ELSE {"ok", "EACCES"}

EnsureDirectory ==
    /\ pc = "mkdir"
    /\ mkdirCalls' = mkdirCalls + 1
    /\ \E code \in mkdirOutcomes(outDir) :
          /\ pc' = IF ensureDirectoryThrows(code) THEN "exit1" ELSE "plan"
          /\ outDir' = IF code = "ok" THEN "present" ELSE outDir
    /\ UNCHANGED <<oracle, composite, doc, config, parallel, errors, tasks, i,
                   stage, result, stats, cache, written, runs, recorded,
                   batches, retrievals, served, produced>>

(***************************************************************************)
(* run: the defaults, generateTasks and stats.total.                       *)
(***************************************************************************)
PlanTasks ==
    /\ pc = "plan"
    /\ LET ts == generateTasks(config.icons, config.sources,
                               TaskSettings(config.settings))
       IN  /\ tasks' = ts
           /\ stats' = [stats EXCEPT !.total = Len(ts)]
           /\ stage' = [t \in 1..Len(ts) |-> "idle"]
           /\ result' = [t \in 1..Len(ts) |-> NoResult]
           /\ runs' = [t \in 1..Len(ts) |-> 0]
           /\ retrievals' = [s \in SourcesOf(ts) |-> 0]
           /\ served' = [s \in SourcesOf(ts) |-> {}]
    /\ pc' = "loop"
    /\ UNCHANGED <<oracle, composite, doc, outDir, config, parallel, errors,
                   mkdirCalls, i, cache, written, recorded, batches,
                   produced>>

(***************************************************************************)
(* runSequential: one iteration is the call of executeTask (SeqStart) and, *)
(* once its promise has settled, updateStats and i += 1 (SeqRecord).       *)
(***************************************************************************)
SeqStart ==
    /\ pc = "loop" /\ ~parallel
    /\ i < N
    /\ SetWorld(StartTask(World, i + 1))
    /\ pc' = "await"
    /\ UNCHANGED <<oracle, composite, doc, outDir, config, parallel, errors,
                   mkdirCalls, tasks, i, stats, recorded, batches>>

\* A rejected promise would be rethrown by the await, out of run() and into
\* the catch of main.  The local `result` is dead once it has been counted.
SeqRecord ==
    /\ pc = "await" /\ ~parallel
    /\ awaitTask(i + 1)
    /\ IF result[i + 1].status = "rejected"
       THEN /\ pc' = "exit1"
            /\ UNCHANGED <<stats, recorded, i>>
       ELSE /\ stats' = updateStats(stats, result[i + 1])
            /\ recorded' = Append(recorded, i + 1)
            /\ i' = i + 1
            /\ pc' = "loop"
    /\ result' = [result EXCEPT ![i + 1] = NoResult]
    /\ UNCHANGED <<oracle, composite, doc, outDir, config, parallel, errors,
                   mkdirCalls, tasks, stage, cache, written, runs, batches,
                   retrievals, served, produced>>

(***************************************************************************)
(* runParallel: one iteration slices the batch and starts all its tasks    *)
(* (ParStart) and, once Promise.allSettled has resolved, counts the        *)
(* results in batch order and advances i by BATCH_SIZE (ParRecord).        *)
(***************************************************************************)
ParStart ==
    /\ pc = "loop" /\ parallel
    /\ i < N
    /\ SetWorld(StartAll(World, batchOf(i)))
    /\ batches' = Append(batches, batchOf(i))
    /\ pc' = "await"
    /\ UNCHANGED <<oracle, composite, doc, outDir, config, parallel, errors,
                   mkdirCalls, tasks, i, stats, recorded>>

ParRecord ==
    /\ pc = "await" /\ parallel
    /\ allSettled(batchOf(i))
    /\ stats' = recordAll(stats, batchOf(i))
    /\ result' = [t \in TaskIds |->
                    IF t \in Range(batchOf(i)) THEN NoResult ELSE result[t]]
    /\ recorded' = recorded \o batchOf(i)
    /\ i' = i + BATCH_SIZE
    /\ pc' = "loop"
    /\ UNCHANGED <<oracle, composite, doc, outDir, config, parallel, errors,
                   mkdirCalls, tasks, stage, cache, written, runs, batches,
                   retrievals, served, produced>>

(***************************************************************************)
(* run: logSummary, after the loop of either mode has ended.               *)
(***************************************************************************)
LogSummary ==
    /\ pc = "loop"
    /\ i >= N
    /\ pc' = "done"
    /\ UNCHANGED <<oracle, composite, doc, outDir, config, parallel, errors,
                   mkdirCalls, tasks, i, stage, result, stats, cache, written,
                   runs, recorded, batches, retrievals, served, produced>>

(***************************************************************************)
(* The awaits of a task.  fetchContent: the request or file read completes *)
(* with text, which is cached and returned, or with an error, which is     *)
(* rethrown and caught by the converter.                                   *)
(***************************************************************************)
\* The catch of fetchContent storing the failure under the source before it
\* rethrows.
FetchFailedCached(t) ==
    /\ stage[t] = "fetch"
    /\ SetWorld(Settle(
          [World EXCEPT !.cache = cacheSet(@, tasks[t].source, "error")],
          t, Failure))

\* The retrieval throws (response not ok, file not found, I/O error): the
\* catch of fetchContent rethrows, the catch of the converter returns a
\* failed result.
FetchFailed(t) ==
    /\ stage[t] = "fetch"
    /\ SetWorld(Settle(World, t, Failure))

\* The retrieval returns text r: cache.set, then the text goes to the task.
FetchReturned(t, r) ==
    /\ stage[t] = "fetch"
    /\ SetWorld(AfterFetch(
          [World EXCEPT !.cache = cacheSet(@, tasks[t].source, r)], t, r))

FetchDone(t) ==
    /\ pc \in {"loop", "await"}
    /\ \/ FetchFailed(t)
       \/ \E r \in Texts : FetchReturned(t, r)
    /\ UNCHANGED <<oracle, composite, doc, outDir, config, parallel, pc,
                   errors, mkdirCalls, tasks, i, stats, recorded, batches>>

\* sharp(...).toBuffer() (for a wide task both sharp pipelines): a buffer,
\* or an error.
RasterReturned(t, ok) ==
    /\ stage[t] = "raster"
    /\ IF ok
       THEN SetWorld([World EXCEPT !.stage[t] = "write"])
       ELSE SetWorld(Settle(World, t, Failure))

RasterDone(t) ==
    /\ pc \in {"loop", "await"}
    /\ \E ok \in BOOLEAN : RasterReturned(t, ok)
    /\ UNCHANGED <<oracle, composite, doc, outDir, config, parallel, pc,
                   errors, mkdirCalls, tasks, i, stats, recorded, batches>>

\* fs.writeFile(output, buffer): done, after which the length of the buffer
\* is read and returned as the size of the result, or an error (len = 0).
WriteReturned(t, len) ==
    /\ stage[t] = "write"
    /\ IF len = 0
       THEN SetWorld(Settle(World, t, Failure))
       ELSE SetWorld(Settle([World EXCEPT !.written = @ \cup {tasks[t].output}],
                            t, Success(len)))

WriteDone(t) ==
    /\ pc \in {"loop", "await"}
    /\ \E len \in ByteSizes \cup {0} : WriteReturned(t, len)
    /\ UNCHANGED <<oracle, composite, doc, outDir, config, parallel, pc,
                   errors, mkdirCalls, tasks, i, stats, recorded, batches>>

Next ==
    \/ LoadConfig
    \/ EnsureDirectory
    \/ PlanTasks
    \/ SeqStart
    \/ SeqRecord
    \/ ParStart
    \/ ParRecord
    \/ LogSummary
    \/ \E t \in TaskIds : FetchDone(t)
    \/ \E t \in TaskIds : RasterDone(t)
    \/ \E t \in TaskIds : WriteDone(t)

Spec == Init /\ [][Next]_vars

(***************************************************************************)
(* The planning specification: main() from loading the configuration to    *)
(* the planned task list, over the richer configurations.                  *)
(***************************************************************************)
InitPlan == InitWith(PlanConfigs)

NextPlan ==
    \/ LoadConfig
    \/ EnsureDirectory
    \/ PlanTasks

SpecPlan == InitPlan /\ [][NextPlan]_vars

(***************************************************************************)
(* The fair specification: the event loop runs every continuation that is  *)
(* ready, and every pending I/O operation completes.  It is checked over   *)
(* the configurations that give at most MaxLiveTasks tasks.                *)
(***************************************************************************)
LiveConfigs ==
    { cfg \in Configs : 2 * Len(cfg.icons) * Len(cfg.sources) <= MaxLiveTasks }

InitLive == InitWith(LiveConfigs)

FairSpec == InitLive /\ [][Next]_vars /\ WF_vars(Next)

(***************************************************************************)
(* Runs in which the outside world is fixed beforehand: what a retrieval   *)
(* of each source gives, and how far each task gets after it (-1: sharp    *)
(* fails, 0: writeFile fails, otherwise the length of the buffer written). *)
(* The scheduler is the one of Spec; only the answers are determined.      *)
(* Outcomes that no task can ask for are fixed to one value.               *)
(***************************************************************************)
AllSources ==
    { fullSourceOf(sc.source, icon) : sc \in SourceConfigs, icon \in IconNames }

EqConfigs ==
    { cfg \in Configs :
        /\ validateConfig(cfg) = <<>>
        /\ 2 * Len(cfg.icons) * Len(cfg.sources) <= MaxEqTasks }

LaterOutcomes == {-1, 0} \cup ByteSizes

Oracles(cfg) ==
    LET ts == generateTasks(cfg.icons, cfg.sources, TaskSettings(cfg.settings))
    IN  { o \in [fetch : [AllSources -> Texts \cup {"error"}],
                 later : [1..MaxEqTasks -> LaterOutcomes]] :
            /\ \A src \in AllSources \ SourcesOf(ts) : o.fetch[src] = "error"
            /\ \A t \in 1..MaxEqTasks :
                  (t > Len(ts) \/ o.fetch[ts[t].source] \in {"error", "junk"})
                  => o.later[t] = -1 }

InitEq ==
    /\ InitRun(EqConfigs)
    /\ composite = NoComposite
    /\ doc = NoDoc
    /\ oracle \in Oracles(config)

OracleFetch(t) ==
    /\ pc \in {"loop", "await"}
    /\ LET r == oracle.fetch[tasks[t].source]
       IN  IF r = "error" THEN FetchFailed(t) ELSE FetchReturned(t, r)
    /\ UNCHANGED <<oracle, composite, doc, outDir, config, parallel, pc,
                   errors, mkdirCalls, tasks, i, stats, recorded, batches>>

OracleRaster(t) ==
    /\ pc \in {"loop", "await"}
    /\ RasterReturned(t, oracle.later[t] >= 0)
    /\ UNCHANGED <<oracle, composite, doc, outDir, config, parallel, pc,
                   errors, mkdirCalls, tasks, i, stats, recorded, batches>>

OracleWrite(t) ==
    /\ pc \in {"loop", "await"}
    /\ WriteReturned(t, oracle.later[t])
    /\ UNCHANGED <<oracle, composite, doc, outDir, config, parallel, pc,
                   errors, mkdirCalls, tasks, i, stats, recorded, batches>>

NextEq ==
    \/ LoadConfig
    \/ EnsureDirectory
    \/ PlanTasks
    \/ SeqStart
    \/ SeqRecord
    \/ ParStart
    \/ ParRecord
    \/ LogSummary
    \/ \E t \in TaskIds : OracleFetch(t)
    \/ \E t \in TaskIds : OracleRaster(t)
    \/ \E t \in TaskIds : OracleWrite(t)

SpecEq == InitEq /\ [][NextEq]_vars

(***************************************************************************)
(* The converters' pure steps on their own.  The run does not move: its    *)
(* variables stay at the start of a run on an empty configuration.         *)
(***************************************************************************)
EmptyConfig ==
    [icons |-> <<>>, sources |-> <<>>,
     settings |-> [size |-> 0, outputDirectory |-> Empty, wide |-> NoWide]]

InitParked ==
    /\ InitRun({EmptyConfig})
    /\ ~parallel
    /\ outDir = "absent"

\* convertWide called with a canvas and an icon size: the placement.
InitWide ==
    /\ InitParked
    /\ doc = NoDoc
    /\ oracle = NoOracle
    /\ composite \in [state : {"called"}, width : Dims, height : Dims,
                      iconSize : Dims, left : {0}, top : {0}]

CenterIcon ==
    /\ composite.state = "called"
    /\ composite' = [composite EXCEPT
                        !.state = "placed",
                        !.left = left(composite.width, composite.iconSize),
                        !.top = top(composite.height, composite.iconSize)]
    /\ UNCHANGED <<runVars, doc>>

SpecWide == InitWide /\ [][CenterIcon]_vars

\* modifyContent called on a parsed document with a color and a size (the
\* converters pass the same number as width and height).
InitStyle ==
    /\ InitParked
    /\ composite = NoComposite
    /\ oracle = NoOracle
    /\ doc \in { [state |-> "parsed", input |-> d, color |-> c, size |-> n,
                   output |-> d] :
                     d \in Documents, c \in Colors, n \in RequestedSizes }

ModifyContent ==
    /\ doc.state = "parsed"
    /\ doc' = [doc EXCEPT
                  !.state = "done",
                  !.output = modifyContent(doc.input, doc.color, doc.size, doc.size)]
    /\ UNCHANGED <<runVars, composite>>

SpecStyle == InitStyle /\ [][ModifyContent]_vars

Planned == pc \in {"loop", "await", "done"}

Validated == validateConfig(config) = <<>>

NumIcons == Len(config.icons)

NumSources == Len(config.sources)

\* The batch the claims assign to the task at 1-based position t.
BatchIndex(t) == (t - 1) \div 4

(***************************************************************************)
(* Claims.                                                                 *)
(***************************************************************************)

\* The task planned for the icon at 0-based position ii, the source at
\* position jj and kind k (0 square, 1 wide), at the index the claim gives.
PlannedAt(ii, jj, k) == tasks[2 * (ii * NumSources + jj) + k + 1]

\* C1: once the tasks are planned there are exactly 2 * |icons| * |sources|
\* of them, and the task of the i-th icon, j-th source and kind k sits at
\* index 2 * (i * |sources| + j) + k: grouped by icon, then by source, the
\* square task right before the wide one.
C1_PlanOrder ==
    Planned =>
      /\ Len(tasks) = 2 * NumIcons * NumSources
      /\ \A ii \in 0..(NumIcons - 1) : \A jj \in 0..(NumSources - 1) :
           \A k \in {0, 1} :
             LET task == PlannedAt(ii, jj, k)
                 icon == config.icons[ii + 1]
                 src  == config.sources[jj + 1]
             IN  /\ task.iconName = icon
                 /\ task.suffix = src.suffix
                 /\ task.source = fullSourceOf(src.source, icon)
                 /\ task.type = (IF k = 0 THEN "square" ELSE "wide")

\* Two different icons and two different sources have been planned.
C1_Witness ==
    /\ Planned
    /\ NumIcons = 2 /\ NumSources = 2
    /\ config.icons[1] # config.icons[2]
    /\ config.sources[1] # config.sources[2]
    /\ Len(tasks) = 8

\* C2: in one run at most one retrieval is begun per distinct full source,
\* and all tasks of that source are handed the same text.
C2_OneRetrievalPerSource ==
    \A s \in DOMAIN retrievals :
      /\ retrievals[s] <= 1
      /\ Cardinality(served[s]) <= 1

\* C3: a failing task counts as exactly one failure and adds no bytes, the
\* run is never aborted once tasks are planned, no task is executed twice,
\* and when the summary is printed every planned task has been executed
\* exactly once, whatever the outcomes of the others.
C3_FailureIsolated ==
    /\ \A t \in TaskIds : runs[t] <= 1
    /\ (pc = "exit1" => tasks = <<>>)
    /\ (pc = "loop" =>
          /\ stats.failed = produced.failed
          /\ stats.totalSize = produced.bytes)
    /\ (pc = "done" =>
          /\ \A t \in TaskIds : runs[t] = 1 /\ stage[t] = "settled"
          /\ stats.failed = produced.failed)

\* Batched mode, more than one batch, ended with failed and successful tasks.
C3_Witness ==
    /\ pc = "done" /\ parallel
    /\ N > BATCH_SIZE
    /\ stats.failed >= 2
    /\ stats.successful >= 1

\* The same in sequential mode: a failure, then a later success.
C3_WitnessSequential ==
    /\ pc = "done" /\ ~parallel
    /\ N >= 4
    /\ stats.failed >= 1
    /\ stats.successful >= 1

\* C4: in sequential mode at most one task is in flight, a task has started
\* only if every task before it has settled and been counted, and the
\* results are counted in exactly the planned order.
C4_SequentialOrder ==
    (Planned /\ ~parallel) =>
      /\ Cardinality(InFlight) <= 1
      /\ \A t \in Started : \A u \in 1..(t - 1) :
           stage[u] = "settled" /\ u \in Recorded
      /\ recorded = [k \in 1..Len(recorded) |-> k]

\* The third task is writing its output after an earlier task failed.
C4_Witness ==
    /\ ~parallel /\ pc = "await"
    /\ i = 2
    /\ stage[3] = "write"
    /\ stats.failed = 1 /\ stats.successful = 1

\* C5: in batched mode a task has started only if every task of every
\* earlier batch has settled.
C5_BatchBoundary ==
    (Planned /\ parallel) =>
      \A t \in Started : \A u \in TaskIds :
        BatchIndex(u) < BatchIndex(t) => stage[u] = "settled"

\* A task of the third batch is in flight after failures and successes.
C5_Witness ==
    /\ parallel
    /\ \E t \in InFlight : BatchIndex(t) = 2
    /\ stats.failed >= 1 /\ stats.successful >= 1

\* The contiguous group of 4 (fewer at the end) at 1-based position b.
GroupOfFour(b) ==
    [j \in 1..Min(4, N - 4 * (b - 1)) |-> 4 * (b - 1) + j]

\* C6: the batches dispatched are the contiguous groups of 4 in planned
\* order (task k in batch floor(k/4), only the last one shorter), and when
\* the summary is printed exactly ceil(n/4) batches have run: for 10 tasks
\* three, of sizes 4, 4 and 2.
C6_Batches ==
    (Planned /\ parallel) =>
      /\ \A b \in 1..Len(batches) :
           /\ batches[b] = GroupOfFour(b)
           /\ \A t \in Range(batches[b]) : BatchIndex(t) = b - 1
           /\ (4 * b <= N => Len(batches[b]) = 4)
      /\ Started = UNION { Range(batches[b]) : b \in 1..Len(batches) }
      /\ (pc = "done" =>
            /\ Len(batches) = (N + 3) \div 4
            /\ (N = 10 => [b \in 1..3 |-> Len(batches[b])] = <<4, 4, 2>>))

\* Ten tasks: the third batch, of two tasks, runs after all eight tasks of
\* the first two batches failed.
C6_Witness ==
    /\ parallel /\ N = 10
    /\ Len(batches) = 3
    /\ Len(batches[3]) = 2
    /\ stats.failed = 8
    /\ InFlight = {9, 10}

\* C7: in batched mode at most 4 tasks are in flight at any time.
C7_AtMostFourInFlight ==
    parallel => Cardinality(InFlight) <= 4

\* Four tasks of the second batch of a ten-task run are in flight.
C7_Witness ==
    /\ parallel /\ N = 10
    /\ InFlight = 5..8

\* C8: every result is counted once; successful + failed is the number of
\* results counted so far and never exceeds total; and when the summary is
\* printed successful + failed = total = the number of planned tasks and
\* totalSize is the sum of the bytes of the successful tasks.
C8_Aggregation ==
    /\ Cardinality(Recorded) = Len(recorded)
    /\ stats.successful + stats.failed = Len(recorded)
    /\ Len(recorded) <= stats.total
    /\ (pc = "done" =>
          /\ Recorded = TaskIds
          /\ stats.successful + stats.failed = stats.total
          /\ stats.total = N
          /\ N = 2 * NumIcons * NumSources
          /\ stats.successful = produced.ok
          /\ stats.totalSize = produced.bytes)

\* A batched run ended with failures and with successes of different sizes.
C8_Witness ==
    /\ pc = "done" /\ parallel
    /\ stats.total = 6
    /\ stats.failed = 2
    /\ stats.successful = 4
    /\ stats.totalSize = 7

C10_RejectedBeforeAnything ==
    ~Validated =>
      /\ pc \in {"load", "exit1"}
      /\ mkdirCalls = 0
      /\ tasks = <<>>
      /\ cache = {}
      /\ written = {}
      /\ (pc = "exit1" => errors \in {<<>>, validateConfig(config)})

\* A configuration with two violations has been rejected.
C10_Witness ==
    /\ pc = "exit1"
    /\ Len(errors) = 2
    /\ NumIcons > 0

WideOf == config.settings.wide

NamesWideIconSize(errs) ==
    \E k \in 1..Len(errs) : errs[k].field = "settings.wide.iconSize"

\* C11: a configuration whose wide block has an iconSize greater than its
\* width or greater than its height is rejected, and the errors reported
\* include one on settings.wide.iconSize.
C11_WideIconSizeRejected ==
    (WideOf.present /\ (WideOf.iconSize > WideOf.width \/ WideOf.iconSize > WideOf.height))
    => /\ pc \in {"load", "exit1"}
       /\ NamesWideIconSize(validateConfig(config))
       /\ (pc = "exit1" /\ errors # <<>>) => NamesWideIconSize(errors)

\* A configuration whose only violation is iconSize 200 on a canvas 180 wide
\* (and 320 high) has been rejected with that one error.
C11_Witness ==
    /\ pc = "exit1"
    /\ WideOf.present
    /\ WideOf.iconSize = 200
    /\ WideOf.width = 180
    /\ WideOf.height = 320
    /\ Len(errors) = 1
    /\ NamesWideIconSize(errors)

\* C12: in every accepted configuration each planned wide task has an
\* iconSize of at most min(canvas width, canvas height); without a wide block
\* the canvas is 320 by 180, the iconSize is size and the suffix "_wide".
C12_IconFitsCanvas ==
    Planned =>
      \A t \in TaskIds :
        tasks[t].type = "wide" =>
          /\ tasks[t].iconSize <= Min(tasks[t].width, tasks[t].height)
          /\ ~WideOf.present =>
               /\ tasks[t].width = 320
               /\ tasks[t].height = 180
               /\ tasks[t].iconSize = config.settings.size
               /\ SubSeq(tasks[t].output, Len(tasks[t].output) - 1,
                         Len(tasks[t].output)) = <<"_wide", PngExt>>

\* The icon name of the claims: a trailing ".svg" removed, if there is one.
StripTrailingSvg(name) ==
    IF name # <<>> /\ name[Len(name)] = SvgExt
    THEN SubSeq(name, 1, Len(name) - 1)
    ELSE name

\* C13: the square task of an icon and a source writes to
\* <outputDirectory>/<basename><suffix>.png and the wide task to
\* <outputDirectory>/<basename><suffix><wideSuffix>.png, where basename is
\* the icon name without a trailing ".svg".
C13_OutputNames ==
    Planned =>
      \A t \in TaskIds :
        LET stem == config.settings.outputDirectory \o <<"/">>
                      \o StripTrailingSvg(tasks[t].iconName) \o tasks[t].suffix
        IN  tasks[t].output =
              IF tasks[t].type = "square"
              THEN stem \o <<PngExt>>
              ELSE stem \o TaskSettings(config.settings).wideSuffix \o <<PngExt>>

ExampleConfig ==
    [icons |-> << <<"a", SvgExt>> >>,
     sources |-> << [source |-> <<"./", "x">>, suffix |-> <<"_s">>] >>,
     settings |-> [size |-> 10, outputDirectory |-> <<"out">>, wide |-> NoWide]]

\* Every task has returned, and with success.
AllSucceeded == produced.ok = N /\ produced.failed = 0

\* C14: a sequential run in which every task succeeds ends with successful =
\* total = 2 * icons * sources and failed = 0, and the files written are
\* exactly the planned output paths; for the icon a.svg, the source ./x with
\* suffix _s, size 10, the directory out and no wide block these are
\* out/a_s.png at 10 by 10 and out/a_s_wide.png at 320 by 180, 2 successful.
C14_AllSucceed ==
    (pc = "done" /\ ~parallel /\ AllSucceeded) =>
      /\ stats.successful = stats.total
      /\ stats.total = 2 * NumIcons * NumSources
      /\ stats.failed = 0
      /\ written = { tasks[t].output : t \in TaskIds }
      /\ config = ExampleConfig =>
           /\ written = { <<"out", "/", "a", "_s", PngExt>>,
                          <<"out", "/", "a", "_s", "_wide", PngExt>> }
           /\ tasks[1].output = <<"out", "/", "a", "_s", PngExt>>
           /\ tasks[1].width = 10 /\ tasks[1].height = 10
           /\ tasks[2].output = <<"out", "/", "a", "_s", "_wide", PngExt>>
           /\ tasks[2].width = 320 /\ tasks[2].height = 180
           /\ stats.successful = 2

\* The sequential run of the example has ended with both tasks successful.
C14_Witness ==
    /\ pc = "done"
    /\ ~parallel
    /\ config = ExampleConfig
    /\ AllSucceeded
    /\ stats.successful = 2
    /\ Cardinality(written) = 2

Placed == composite.state = "placed"

\* C15: on a canvas of width W and height H an icon of size s with
\* 0 < s <= min(W, H) is composited at left = round((W - s) / 2) and
\* top = round((H - s) / 2), a half rounded up, so that the icon lies within
\* the canvas; 320, 180 and 160 give left = 80 and top = 10.
C15_Centered ==
    (Placed /\ composite.iconSize > 0
            /\ composite.iconSize <= Min(composite.width, composite.height)) =>
      /\ 2 * composite.left - (composite.width - composite.iconSize) \in {0, 1}
      /\ 2 * composite.top - (composite.height - composite.iconSize) \in {0, 1}
      /\ composite.left >= 0
      /\ composite.left + composite.iconSize <= composite.width
      /\ composite.top >= 0
      /\ composite.top + composite.iconSize <= composite.height
      /\ (composite.width = 320 /\ composite.height = 180 /\ composite.iconSize = 160)
           => (composite.left = 80 /\ composite.top = 10)

\* An icon of size 3 has been placed on a canvas 6 wide and 4 high: the half
\* of the width left over is rounded up to 2, the half of the height to 1.
C15_Witness ==
    /\ Placed
    /\ composite.width = 6 /\ composite.height = 4 /\ composite.iconSize = 3
    /\ composite.left = 2 /\ composite.top = 1

Restyled == doc.state = "done" /\ ~falsy(doc.color)

\* The branch applyColorStyling took, as the result shows it: the outline
\* branch leaves fill="none" on the root, the solid branch the color.
OutlineStyled == doc.output.root.fill = "none"

Shapes(d) ==
    { k \in 1..Len(d.elements) : d.elements[k].kind \in SVG_SHAPE_SELECTORS }

\* C16: with a color, an icon is styled as outline exactly when one of its
\* shape elements, of whichever of the seven kinds, has a stroke attribute,
\* or fill="none", or no fill attribute; otherwise it is styled as solid.
C16_OutlineIffSomeShape ==
    Restyled =>
      (OutlineStyled <=>
         \E k \in Shapes(doc.input) :
            \/ doc.input.elements[k].stroke # Null
            \/ doc.input.elements[k].fill = "none"
            \/ doc.input.elements[k].fill = Null)

\* C17: after restyling with a color, an outline icon has stroke = color,
\* fill="none" and stroke-width="1.5" on the root and on every shape; a solid
\* icon has fill = color on the root and on every shape, and stroke and
\* stroke-width on no element; in both no other element carries any of the
\* three attributes, so that no value of the input is kept, the root's
\* included.
C17_NothingKept ==
    Restyled =>
      LET out == doc.output
          carries(e) == <<e.fill, e.stroke, e.strokeWidth>>
      IN  IF OutlineStyled
          THEN /\ carries(out.root) = <<"none", doc.color, "1.5">>
               /\ \A k \in 1..Len(out.elements) :
                     carries(out.elements[k]) =
                       IF k \in Shapes(out) THEN <<"none", doc.color, "1.5">>
                                            ELSE <<Null, Null, Null>>
          ELSE /\ carries(out.root) = <<doc.color, Null, Null>>
               /\ \A k \in 1..Len(out.elements) :
                     carries(out.elements[k]) =
                       IF k \in Shapes(out) THEN <<doc.color, Null, Null>>
                                            ELSE <<Null, Null, Null>>

\* C18: without a color, modifyContent leaves fill, stroke and stroke-width
\* of every element as they were; it changes the root's width and height
\* only, which it sets to the requested size over whatever was there.
C18_NoColorKeepsStyle ==
    (doc.state = "done" /\ falsy(doc.color)) =>
      /\ doc.output.elements = doc.input.elements
      /\ doc.output.root = [doc.input.root EXCEPT !.width = ToString(doc.size),
                                                  !.height = ToString(doc.size)]

\* A styled document with a width of 24 has gone through modifyContent
\* without a color: the width is 160 and the styles are the input's.
C18_Witness ==
    /\ doc.state = "done"
    /\ doc.color = Null
    /\ doc.size = 160
    /\ doc.input.root.width = "24"
    /\ doc.output.root.width = "160"
    /\ doc.output.root.stroke = "#0f0"
    /\ Len(doc.output.elements) = 2
    /\ doc.output.elements[1].fill = "#000"
    /\ doc.output.elements[2].strokeWidth = "2"

\* C19: the output directory is created once per run, before the tasks are
\* planned and before any task starts or writes; a path that exists already
\* does not end the run; where the creation fails no task is executed.
C19_DirectoryFirst ==
    /\ mkdirCalls <= 1
    /\ (pc = "plan" \/ Planned) => mkdirCalls = 1
    /\ (tasks # <<>> \/ Started # {} \/ written # {} \/ cache # {}) => mkdirCalls = 1
    /\ (pc = "exit1" /\ mkdirCalls = 1) =>
         /\ outDir = "absent"
         /\ tasks = <<>>
         /\ stats.total = 0
         /\ written = {}
         /\ cache = {}

\* A run has ended after one creation of the directory, with files written.
C19_Witness ==
    /\ pc = "done"
    /\ mkdirCalls = 1
    /\ outDir = "present"
    /\ written # {}

\* C20: the fetch cache is append-only in both modes: an entry is never
\* removed, the text under a key never changes once written, and every text
\* stored is one that fetchContent returned for that source.
C20_CacheAppendOnly ==
    /\ [][\A e \in cache : e \in cache']_vars
    /\ [](\A e \in cache : e.text \in served[e.key])

TasksOn(src) == { t \in TaskIds : tasks[t].source = src }

\* C21: a retrieval that fails gives its task a failed result and leaves the
\* cache as it was; nothing is stored for the source, so that as long as the
\* cache has no entry for a source every task started on it has begun a
\* retrieval of its own, and what the cache holds is retrieved text only.
C21_FailedRetrievalNotCached ==
    /\ [][\A t \in TaskIds :
            FetchFailed(t) =>
              /\ cache' = cache
              /\ result'[t].status = "fulfilled"
              /\ ~result'[t].success]_vars
    /\ [](\A src \in DOMAIN retrievals :
            ~cacheHas(cache, src) =>
              /\ served[src] = {}
              /\ retrievals[src] = Cardinality(TasksOn(src) \cap Started))
    /\ [](\A e \in cache : e.text \in Texts)

\* A sequential run: the retrieval of the first task has failed, the cache is
\* empty, and the second task, on the same source, is retrieving again.
C21_Witness ==
    /\ ~parallel
    /\ N >= 2
    /\ tasks[1].source = tasks[2].source
    /\ stage[1] = "settled"
    /\ stage[2] = "fetch"
    /\ cache = {}
    /\ produced.failed = 1
    /\ retrievals[tasks[2].source] = 2

\* The stage a task may be in next: the transform is synchronous, so a task
\* whose fetch has returned is at the rasterizer or has failed.
StageAfter(st) ==
    CASE st = "idle"    -> {"idle", "fetch", "raster", "settled"}
      [] st = "fetch"   -> {"fetch", "raster", "settled"}
      [] st = "raster"  -> {"raster", "write", "settled"}
      [] st = "write"   -> {"write", "settled"}
      [] st = "settled" -> {"settled"}

\* C22: in every task the stages come in the order fetch, transform,
\* rasterize, write, and a failure skips what follows: markup without an svg
\* root never reaches the rasterizer, a file is written only by a task at its
\* write stage, a task that ends before that stage has failed and written
\* nothing, and a task settles with success only from the write stage, with
\* its output written.
C22_StageOrder ==
    [][(tasks' = tasks /\ (stage' # stage \/ written' # written)) =>
         /\ \A t \in { u \in TaskIds : stage'[u] # stage[u] } :
              /\ stage'[t] \in StageAfter(stage[t])
              /\ stage'[t] = "raster" =>
                    /\ cacheHas(cache', tasks[t].source)
                    /\ hasSvgElement(cacheGet(cache', tasks[t].source))
              /\ (stage[t] = "idle" /\ cacheHas(cache, tasks[t].source)
                    /\ ~hasSvgElement(cacheGet(cache, tasks[t].source))) =>
                    (stage'[t] = "settled" /\ ~result'[t].success)
              /\ (stage[t] # "write" /\ stage'[t] = "settled") =>
                    (~result'[t].success /\ written' = written)
              /\ (stage'[t] = "settled" /\ result'[t].success) =>
                    (stage[t] = "write" /\ tasks[t].output \in written')
         /\ written' # written =>
              \E t \in TaskIds :
                 /\ stage[t] = "write"
                 /\ stage'[t] = "settled"
                 /\ written' = written \cup {tasks[t].output}]_vars

\* A batch of two tasks on one source has ended: one task got markup without
\* an svg root and wrote nothing, the other wrote its file.
C22_Witness ==
    /\ pc = "done"
    /\ parallel
    /\ N = 2
    /\ "junk" \in served[tasks[1].source]
    /\ stats.failed = 1
    /\ stats.successful = 1
    /\ Cardinality(written) = 1

PairwiseDistinct(seq) ==
    \A j, k \in 1..Len(seq) : j # k => seq[j] # seq[k]

SuffixesOf(sources) == [k \in 1..Len(sources) |-> sources[k].suffix]

\* C23: where the icon names of a configuration are pairwise distinct and
\* the suffixes of its sources are pairwise distinct, the planned tasks have
\* pairwise distinct output paths, so that no two tasks of a run, and no two
\* tasks of one batch, write the same file.
C23_DistinctOutputs ==
    (Planned /\ PairwiseDistinct(config.icons)
             /\ PairwiseDistinct(SuffixesOf(config.sources))) =>
      \A t, u \in TaskIds : t # u => tasks[t].output # tasks[u].output

\* The tasks that succeed where the outcomes are fixed: the retrieval of the
\* source gives a document and the task's buffer is written.
Winners ==
    { t \in TaskIds : /\ oracle.fetch[tasks[t].source] \notin {"error", "junk"}
                      /\ oracle.later[t] >= 1 }

RECURSIVE SumLater(_)
SumLater(S) ==
    IF S = {} THEN 0
    ELSE LET t == CHOOSE x \in S : TRUE
         IN  oracle.later[t] + SumLater(S \ {t})

\* C24: with the same task list and the same outcome of every retrieval of a
\* source and of every later stage of a task, a sequential and a batched run
\* end with the same successful, failed and totalSize and the same set of
\* files written: all four are determined by the tasks and the outcomes
\* alone, whichever the mode.
C24_ModesAgree ==
    pc = "done" =>
      /\ stats.successful = Cardinality(Winners)
      /\ stats.failed = N - Cardinality(Winners)
      /\ stats.totalSize = SumLater(Winners)
      /\ written = { tasks[t].output : t \in Winners }

\* A batched run of four tasks has ended, three of them successful, after
\* two retrievals of one source; its outcomes are those of a sequential run
\* as well.
C24_Witness ==
    /\ pc = "done"
    /\ parallel
    /\ N = 4
    /\ stats.successful = 3
    /\ stats.failed = 1
    /\ \E src \in DOMAIN retrievals : retrievals[src] = 2

====
